---- MODULE Spec2Model ----
(***************************************************************************)
(* Live attendance session of src/http/index.ts: the process-wide          *)
(* activeSession slot, the allWs fan-out list, the WebSocket message       *)
(* handler (ATTENDANCE_MARKED, TODAY_SUMMARY, MY_ATTENDANCE, DONE) with    *)
(* each await of DONE as a step of its own, and POST /attendance/start.    *)
(* The classes of the Persistent Store do not change during a run.         *)
(* SpecFaults adds the inputs and the socket states of the error paths:    *)
(* a socket that has left OPEN but whose "close" event is still to come,   *)
(* JSON values that are not objects, and a mark without data.              *)
(***************************************************************************)
EXTENDS Integers, Sequences, FiniteSets, TLC

\* ------------------------------------------------------------------ bounds
\* Spec: several connections, one DONE invocation in flight at a time.
MaxConns == 2
MaxFinalize == 1
\* SpecRace: few connections, several DONE invocations in flight.
RaceConns == 1
RaceFinalize == 2
\* Both: sessions started, batches the store accepts, marks accepted.
MaxStarts == 2
MaxWrites == 2
MaxMarks == 2

\* --------------------------------------------------------------- constants
TEACHER == "teacher"
STUDENT == "student"
PRESENT == "present"
ABSENT == "absent"
AttendanceStatus == {PRESENT, ABSENT}

\* What a client may put in data.status: the handler does not validate it.
\* "late" is a truthy string outside the enum, "" a falsy one.
StatusInputs == AttendanceStatus \cup {"late", ""}
StudentIds == {"s100", "s101"}
ClassIds == {"c101", "c102"}
\* Persistent Store, classes: classId -> studentIds (both owned by teacher t1).
classes == [c \in ClassIds |-> IF c = "c101" THEN {"s100"} ELSE {}]
\* The payloads jwt.verify accepts: {userId, role}.
TokenPayloads == {[userId |-> "t1", role |-> TEACHER],
                  [userId |-> "s100", role |-> STUDENT]}
NoUser == [userId |-> "", role |-> ""]

Max(a, b) == IF a > b THEN a ELSE b
Conns == 1..Max(MaxConns, RaceConns)
Handlers == 1..Max(MaxFinalize, RaceFinalize)

VARIABLES
    activeSession,  \* null, or {classId, startedAt, attendance}
    allWs,          \* the fan-out list, a sequence of connections
    wsConn,         \* per connection: its socket state and ws.user
    attendances,    \* Persistent Store: the batches insertMany has written
    done,           \* the invocations of the DONE handler suspended at an await
    clock,          \* number of sessions started (orders startedAt)
    marks,          \* number of marks accepted
    marked,         \* history: the marks accepted in the session since its start
    received,       \* the inbound message the last step handled, if any
    sent,           \* what the ws.send calls of the last step put on the wire
    finished        \* the DONE invocation that ran to its end in the last step

vars == <<activeSession, allWs, wsConn, attendances, done, clock, marks, marked,
          received, sent, finished>>

null == [isNull |-> TRUE]

\* attendance: {}
EmptyMap == [k \in {} |-> ""]

IsActive(s) == s # null

\* A DONE invocation: where it is suspended and its locals. sess is history:
\* the startedAt of the session that passed the check of line 163.
Idle == [pc |-> "idle", sess |-> 0, classId |-> "", studentIds |-> {},
         records |-> {}]

None == [h |-> 0]

\* ws.on("message"): the connection and message.event (or "invalid" when
\* the text is not JSON); NoMessage for a step that is no message handler.
NoMessage == [ws |-> 0, event |-> ""]
Message(ws, event) == [ws |-> ws, event |-> event]

\* ----------------------------------------------------------------- helpers
Range(f) == {f[i] : i \in DOMAIN f}

\* activeSession.attendance[studentId] = status
Upsert(att, studentId, status) ==
    [k \in DOMAIN att \cup {studentId} |-> IF k = studentId THEN status ELSE att[k]]

\* JavaScript truthiness of attendance[key]: undefined and "" are falsy.
Truthy(att, key) == key \in DOMAIN att /\ att[key] # ""

\* Object.values(attendance).filter(s => s === status).length
CountStatus(att, status) == Cardinality({k \in DOMAIN att : att[k] = status})

\* { present, absent, total } of an attendance map
Summarize(att) ==
    [present |-> CountStatus(att, PRESENT),
     absent |-> CountStatus(att, ABSENT),
     total |-> Cardinality(DOMAIN att)]

\* w.send on a socket that is no longer OPEN throws "WebSocket is not open"
\* or does nothing, as the ws implementation of the build has it.
SendThrows(w) == wsConn[w].state = "closing-throws"

\* allWs.forEach((w) => w.send(payload)): the messages put on the wire. The
\* loop has no try/catch: the first send that throws ends it.
broadcast(message) ==
    LET throwsAt == {i \in 1..Len(allWs) : SendThrows(allWs[i])}
        calls == IF throwsAt = {} THEN Len(allWs)
                 ELSE (CHOOSE i \in throwsAt : \A j \in throwsAt : i <= j) - 1
        onWire == [i \in 1..calls |-> [to |-> allWs[i], msg |-> message]]
    IN  SelectSeq(onWire, LAMBDA s : wsConn[s.to].state = "open")

\* Mutant: the error notification goes to every registered connection.
sendErrorToAll(ws, message) == broadcast([event |-> "ERROR", message |-> message])

\* ws.send(JSON.stringify({ event: "ERROR", data: { message } }))
sendError(ws, message) == <<[to |-> ws, msg |-> [event |-> "ERROR", message |-> message]]>>

\* for (studentId of classRoom.studentIds) if (!attendance[id]) attendance[id] = "absent"
MarkAbsent(att, studentIds) ==
    [k \in DOMAIN att \cup studentIds |->
        IF k \in studentIds /\ ~Truthy(att, k) THEN ABSENT ELSE att[k]]

\* Object.entries(attendance).map(([studentId, status]) => ({classId, studentId, status}))
AttendanceRecords(session) ==
    {[classId |-> session.classId, studentId |-> k, status |-> session.attendance[k]] :
        k \in DOMAIN session.attendance}

\* attendanceSchema: status is restricted to the AttendanceStatus enum
ValidDocs(records) == \A d \in records : d.status \in AttendanceStatus

\* ------------------------------------------------------------------- Init
Init ==
    /\ activeSession = null
    /\ allWs = <<>>
    /\ wsConn = [c \in Conns |-> [state |-> "new", user |-> NoUser]]
    /\ attendances = <<>>
    /\ done = [h \in Handlers |-> Idle]
    /\ clock = 0
    /\ marks = 0
    /\ marked = EmptyMap
    /\ received = NoMessage
    /\ sent = <<>>
    /\ finished = None

\* ------------------------------------------------- connection life cycle
Open(c) == wsConn[c].state = "open"

\* wsApp.ws("/ws"): jwt.verify succeeds; ws.user is set and ws is pushed.
Connect(c, payload) ==
    /\ wsConn[c].state = "new"
    /\ \A b \in Conns : b < c => wsConn[b].state # "new"
    /\ wsConn' = [wsConn EXCEPT ![c] = [state |-> "open", user |-> payload]]
    /\ allWs' = Append(allWs, c)
    /\ received' = NoMessage
    /\ sent' = <<>>
    /\ finished' = None
    /\ UNCHANGED <<activeSession, attendances, done, clock, marks, marked>>

\* Mutant: the connection is pushed before the token is verified.
ConnectUnauthorizedRegistered(c) ==
    /\ wsConn[c].state = "new"
    /\ \A b \in Conns : b < c => wsConn[b].state # "new"
    /\ wsConn' = [wsConn EXCEPT ![c].state = "rejected"]
    /\ allWs' = Append(allWs, c)
    /\ received' = NoMessage
    /\ sent' = <<[to |-> c, msg |-> [event |-> "ERROR",
                                     message |-> "Unauthorized or invalid token"]]>>
    /\ finished' = None
    /\ UNCHANGED <<activeSession, attendances, done, clock, marks, marked>>

\* wsApp.ws("/ws"): jwt.verify throws; the catch sends ERROR and closes.
ConnectUnauthorized(c) ==
    /\ wsConn[c].state = "new"
    /\ \A b \in Conns : b < c => wsConn[b].state # "new"
    /\ wsConn' = [wsConn EXCEPT ![c].state = "rejected"]
    /\ received' = NoMessage
    /\ sent' = <<[to |-> c, msg |-> [event |-> "ERROR",
                                     message |-> "Unauthorized or invalid token"]]>>
    /\ finished' = None
    /\ UNCHANGED <<activeSession, allWs, attendances, done, clock, marks, marked>>

\* The connection is in allWs: pushed, and its "close" event not yet handled.
Registered(c) == wsConn[c].state \in {"open", "closing", "closing-throws"}

\* The socket leaves readyState OPEN (the peer or the network went away);
\* its "close" event is dispatched later. Nothing more is received from it.
SocketClosing(c, throws) ==
    /\ Open(c)
    /\ wsConn' = [wsConn EXCEPT
                    ![c].state = IF throws THEN "closing-throws" ELSE "closing"]
    /\ received' = NoMessage
    /\ sent' = <<>>
    /\ finished' = None
    /\ UNCHANGED <<activeSession, allWs, attendances, done, clock, marks, marked>>

\* Mutant: the "close" handler leaves the connection in allWs.
CloseKeepsRegistered(c) ==
    /\ Registered(c)
    /\ wsConn' = [wsConn EXCEPT ![c].state = "closed"]
    /\ received' = NoMessage
    /\ sent' = <<>>
    /\ finished' = None
    /\ UNCHANGED <<activeSession, allWs, attendances, done, clock, marks, marked>>

\* ws.on("close"): allWs = allWs.filter((w) => w !== ws)
Close(c) ==
    /\ Registered(c)
    /\ wsConn' = [wsConn EXCEPT ![c].state = "closed"]
    /\ allWs' = SelectSeq(allWs, LAMBDA w : w # c)
    /\ received' = NoMessage
    /\ sent' = <<>>
    /\ finished' = None
    /\ UNCHANGED <<activeSession, attendances, done, clock, marks, marked>>

\* ------------------------------------------------------------ REST calls
\* POST /attendance/start by the class's teacher: replaces activeSession.
Start(classId) ==
    /\ clock < MaxStarts
    /\ clock' = clock + 1
    /\ activeSession' = [classId |-> classId, startedAt |-> clock + 1,
                         attendance |-> EmptyMap]
    /\ marked' = EmptyMap
    /\ received' = NoMessage
    /\ sent' = <<>>
    /\ finished' = None
    /\ UNCHANGED <<allWs, wsConn, attendances, done, marks>>

\* ------------------------------------------------------ message handlers
\* A handler that only answers: no state of the program changes.
Reply(ws, event, sends) ==
    /\ received' = Message(ws, event)
    /\ sent' = sends
    /\ finished' = None
    /\ UNCHANGED <<activeSession, allWs, wsConn, attendances, done, clock, marks,
                   marked>>

\* Mutant: the format error closes the connection, as the handshake's catch does.
InvalidMessageCloses(c) ==
    /\ Open(c)
    /\ wsConn' = [wsConn EXCEPT ![c].state = "closed"]
    /\ allWs' = SelectSeq(allWs, LAMBDA w : w # c)
    /\ received' = Message(c, "invalid")
    /\ sent' = sendError(c, "Invalid message format")
    /\ finished' = None
    /\ UNCHANGED <<activeSession, attendances, done, clock, marks, marked>>

\* JSON.parse throws
InvalidMessage(c) ==
    /\ Open(c)
    /\ Reply(c, "invalid", sendError(c, "Invalid message format"))

\* default:
UnknownEvent(c) ==
    /\ Open(c)
    /\ Reply(c, "unknown", sendError(c, "Unknown event"))

\* JSON.parse returns a value that is not an object. message.event of a
\* number, a string or an array is undefined (default:), of null a TypeError:
\* the handler's promise rejects and nothing is sent.
JsonNonObjects == {"number", "null"}

NonObjectMessage(c, value) ==
    /\ Open(c)
    /\ Reply(c, value, IF value = "null" THEN <<>> ELSE sendError(c, "Unknown event"))

\* case "ATTENDANCE_MARKED" of a message without data: after the two checks
\* the destructuring of line 87 throws a TypeError and nothing is sent.
AttendanceMarkedNoData(c) ==
    /\ Open(c)
    /\ IF wsConn[c].user.role # TEACHER
       THEN Reply(c, "ATTENDANCE_MARKED no data",
                  sendError(c, "Forbidden, teacher event only"))
       ELSE IF ~IsActive(activeSession)
       THEN Reply(c, "ATTENDANCE_MARKED no data",
                  sendError(c, "No active attendance session"))
       ELSE Reply(c, "ATTENDANCE_MARKED no data", <<>>)

\* Mutant: the role check of lines 75-78 is missing.
AttendanceMarkedAnyRole(c, studentId, status) ==
    /\ Open(c)
    /\ IF ~IsActive(activeSession)
       THEN Reply(c, "ATTENDANCE_MARKED", sendError(c, "No active attendance session"))
       ELSE /\ marks < MaxMarks
            /\ marks' = marks + 1
            /\ activeSession' = [activeSession EXCEPT
                                   !.attendance = Upsert(@, studentId, status)]
            /\ marked' = Upsert(marked, studentId, status)
            /\ received' = Message(c, "ATTENDANCE_MARKED")
            /\ sent' = broadcast([event |-> "ATTENDANCE_MARKED",
                                  studentId |-> studentId, status |-> status])
            /\ finished' = None
            /\ UNCHANGED <<allWs, wsConn, attendances, done, clock>>

\* case "ATTENDANCE_MARKED"
AttendanceMarked(c, studentId, status) ==
    /\ Open(c)
    /\ IF wsConn[c].user.role # TEACHER
       THEN Reply(c, "ATTENDANCE_MARKED", sendError(c, "Forbidden, teacher event only"))
       ELSE IF ~IsActive(activeSession)
       THEN Reply(c, "ATTENDANCE_MARKED", sendError(c, "No active attendance session"))
       ELSE /\ marks < MaxMarks
            /\ marks' = marks + 1
            /\ activeSession' = [activeSession EXCEPT
                                   !.attendance = Upsert(@, studentId, status)]
            /\ marked' = Upsert(marked, studentId, status)
            /\ received' = Message(c, "ATTENDANCE_MARKED")
            /\ sent' = broadcast([event |-> "ATTENDANCE_MARKED",
                                  studentId |-> studentId, status |-> status])
            /\ finished' = None
            /\ UNCHANGED <<allWs, wsConn, attendances, done, clock>>

\* Mutant: the session check comes before the role check.
TodaySummarySessionFirst(c) ==
    /\ Open(c)
    /\ IF ~IsActive(activeSession)
       THEN Reply(c, "TODAY_SUMMARY", sendError(c, "No active attendance session"))
       ELSE IF wsConn[c].user.role # TEACHER
       THEN Reply(c, "TODAY_SUMMARY", sendError(c, "Forbidden, teacher event only"))
       ELSE Reply(c, "TODAY_SUMMARY", broadcast([event |-> "TODAY_SUMMARY"]
                              @@ Summarize(activeSession.attendance)))

\* case "TODAY_SUMMARY"
TodaySummary(c) ==
    /\ Open(c)
    /\ IF wsConn[c].user.role # TEACHER
       THEN Reply(c, "TODAY_SUMMARY", sendError(c, "Forbidden, teacher event only"))
       ELSE IF ~IsActive(activeSession)
       THEN Reply(c, "TODAY_SUMMARY", sendError(c, "No active attendance session"))
       ELSE Reply(c, "TODAY_SUMMARY", broadcast([event |-> "TODAY_SUMMARY"]
                              @@ Summarize(activeSession.attendance)))

\* studentStatus || "not yet updated"
StatusOrDefault(att, userId) ==
    IF Truthy(att, userId) THEN att[userId] ELSE "not yet updated"

\* Mutant: the answer goes out through broadcast.
unicastToAll(ws, message) == broadcast(message)

\* ws.send(...) of case "MY_ATTENDANCE"
unicast(ws, message) == <<[to |-> ws, msg |-> message]>>

\* Mutant: the self-status request stores the default it answers with.
MyAttendanceStoresDefault(c) ==
    /\ Open(c)
    /\ IF wsConn[c].user.role # STUDENT
       THEN Reply(c, "MY_ATTENDANCE", sendError(c, "Forbidden, student event only"))
       ELSE IF ~IsActive(activeSession)
       THEN Reply(c, "MY_ATTENDANCE", sendError(c, "No active attendance session"))
       ELSE LET status == StatusOrDefault(activeSession.attendance,
                                          wsConn[c].user.userId)
            IN  /\ activeSession' = [activeSession EXCEPT !.attendance =
                                       Upsert(@, wsConn[c].user.userId, status)]
                /\ received' = Message(c, "MY_ATTENDANCE")
                /\ sent' = unicast(c, [event |-> "MY_ATTENDANCE", status |-> status])
                /\ finished' = None
                /\ UNCHANGED <<allWs, wsConn, attendances, done, clock, marks, marked>>

\* case "MY_ATTENDANCE"
MyAttendance(c) ==
    /\ Open(c)
    /\ IF wsConn[c].user.role # STUDENT
       THEN Reply(c, "MY_ATTENDANCE", sendError(c, "Forbidden, student event only"))
       ELSE IF ~IsActive(activeSession)
       THEN Reply(c, "MY_ATTENDANCE", sendError(c, "No active attendance session"))
       ELSE Reply(c, "MY_ATTENDANCE", unicast(c, [event |-> "MY_ATTENDANCE",
                              status |-> StatusOrDefault(activeSession.attendance,
                                                         wsConn[c].user.userId)]))

\* ------------------------------------------------------------ case "DONE"
FreeHandler(h) ==
    /\ done[h].pc = "idle"
    /\ \A g \in Handlers : g < h => done[g].pc # "idle"

\* The DONE invocations suspended at an await
InFlight == {h \in Handlers : done[h].pc # "idle"}

\* The invocation dies on a rejected await or on a TypeError (activeSession
\* is null when it is dereferenced): nothing is sent, the session is as it was.
Abort(h) ==
    /\ done' = [done EXCEPT ![h] = Idle]
    /\ received' = NoMessage
    /\ sent' = <<>>
    /\ finished' = [h |-> h, completed |-> FALSE, pc |-> done[h].pc]
    /\ UNCHANGED <<activeSession, allWs, wsConn, clock, marks, marked>>

\* Lines 155-169: the role and session checks, then ClassModel.findById is called.
Done(c, limit) ==
    /\ Open(c)
    /\ IF wsConn[c].user.role # TEACHER
       THEN Reply(c, "DONE", sendError(c, "Forbidden, teacher event only"))
       ELSE IF ~IsActive(activeSession)
       THEN Reply(c, "DONE", sendError(c, "No active attendance session"))
       ELSE /\ Cardinality(InFlight) < limit
            /\ \E h \in Handlers :
                 /\ FreeHandler(h)
                 /\ done' = [done EXCEPT ![h] = [Idle EXCEPT
                        !.pc = "findById",
                        !.sess = activeSession.startedAt,
                        !.classId = activeSession.classId]]
            /\ received' = Message(c, "DONE")
            /\ sent' = <<>>
            /\ finished' = None
            /\ UNCHANGED <<activeSession, allWs, wsConn, attendances, clock, marks,
                           marked>>

\* Lines 193-213: the final summary, the clear and the DONE broadcast.
Finish(h, session, studentIds, records) ==
    /\ activeSession' = null
    /\ done' = [done EXCEPT ![h] = Idle]
    /\ received' = NoMessage
    /\ sent' = broadcast([event |-> "DONE", message |-> "Attendance persisted"]
                           @@ Summarize(session.attendance))
    /\ finished' = [h |-> h, completed |-> TRUE, sess |-> done[h].sess,
                    session |-> session, studentIds |-> studentIds,
                    records |-> records, marked |-> marked]
    /\ marked' = EmptyMap
    /\ UNCHANGED <<allWs, wsConn, clock, marks>>

\* What the await of ClassModel.findById resumes with: the class document,
\* null (no such class in the store any more), or a rejection (the store fails).
FindByIdResults == {"document", "null", "rejected"}

\* Lines 169-191: the await of ClassModel.findById resumes; absent defaults
\* if (classRoom), the records, then insertMany is called unless there is
\* nothing to write.
DoneAfterFindById(h, result) ==
    /\ done[h].pc = "findById"
    /\ UNCHANGED attendances
    /\ IF result = "rejected" \/ ~IsActive(activeSession)
       THEN Abort(h)
       ELSE LET studentIds == IF result = "document" THEN classes[done[h].classId]
                              ELSE {}
                session == [activeSession EXCEPT
                              !.attendance = MarkAbsent(@, studentIds)]
                records == AttendanceRecords(session)
            IN  IF records # {}
                THEN /\ activeSession' = session
                     /\ done' = [done EXCEPT ![h].pc = "insertMany",
                                             ![h].classId = "",
                                             ![h].studentIds = studentIds,
                                             ![h].records = records]
                     /\ received' = NoMessage
                     /\ sent' = <<>>
                     /\ finished' = None
                     /\ UNCHANGED <<allWs, wsConn, clock, marks, marked>>
                ELSE Finish(h, session, studentIds, records)

\* Mutant: the batch is not written (the write is not awaited and is lost).
insertManyLost(records) == attendances

\* AttendanceModel.insertMany(records) when the store accepts the batch
insertMany(records) == Append(attendances, records)

\* Mutant: a rejected insertMany is ignored and the handler goes on.
DoneAfterInsertManyIgnoringFailure(h, ok) ==
    /\ done[h].pc = "insertMany"
    /\ ok => ValidDocs(done[h].records) /\ Len(attendances) < MaxWrites
    /\ attendances' = IF ok THEN insertMany(done[h].records) ELSE attendances
    /\ IF ~IsActive(activeSession)
       THEN Abort(h)
       ELSE Finish(h, activeSession, done[h].studentIds, done[h].records)

\* Lines 190-213: the await of insertMany resumes with all the documents
\* written (ok), or it throws and none is (a document fails the schema's
\* validation, or the store fails).
DoneAfterInsertMany(h, ok) ==
    /\ done[h].pc = "insertMany"
    /\ ok => ValidDocs(done[h].records) /\ Len(attendances) < MaxWrites
    /\ IF ~ok
       THEN /\ UNCHANGED attendances
            /\ Abort(h)
       ELSE /\ attendances' = insertMany(done[h].records)
            /\ IF ~IsActive(activeSession)
               THEN Abort(h)
               ELSE Finish(h, activeSession, done[h].studentIds, done[h].records)

\* ------------------------------------------------------------------- Next
\* The steps of the program with connections C and at most `limit` DONE
\* invocations in flight.
NextOver(C, limit) ==
    \/ \E c \in C, payload \in TokenPayloads : Connect(c, payload)
    \/ \E c \in C : ConnectUnauthorized(c)
    \/ \E c \in C : Close(c)
    \/ \E classId \in ClassIds : Start(classId)
    \/ \E c \in C : InvalidMessage(c)
    \/ \E c \in C : UnknownEvent(c)
    \/ \E c \in C, studentId \in StudentIds, status \in StatusInputs :
          AttendanceMarked(c, studentId, status)
    \/ \E c \in C : TodaySummary(c)
    \/ \E c \in C : MyAttendance(c)
    \/ \E c \in C : Done(c, limit)
    \/ \E h \in Handlers, result \in FindByIdResults : DoneAfterFindById(h, result)
    \/ \E h \in Handlers, ok \in BOOLEAN : DoneAfterInsertMany(h, ok)

Next == NextOver(1..MaxConns, MaxFinalize)

Spec == Init /\ [][Next]_vars

NextRace == NextOver(1..RaceConns, RaceFinalize)

SpecRace == Init /\ [][NextRace]_vars

\* Every await of a DONE invocation settles, with one outcome or another, and
\* the event loop then runs the continuation.
AwaitsSettle ==
    \A h \in Handlers :
        /\ WF_vars(\E result \in FindByIdResults : DoneAfterFindById(h, result))
        /\ WF_vars(\E ok \in BOOLEAN : DoneAfterInsertMany(h, ok))

SpecLive == Init /\ [][NextRace]_vars /\ AwaitsSettle

\* The program with the error paths: failing sockets and malformed messages.
NextFaults ==
    \/ NextOver(1..MaxConns, MaxFinalize)
    \/ \E c \in 1..MaxConns, throws \in BOOLEAN : SocketClosing(c, throws)
    \/ \E c \in 1..MaxConns, value \in JsonNonObjects : NonObjectMessage(c, value)
    \/ \E c \in 1..MaxConns : AttendanceMarkedNoData(c)

SpecFaults == Init /\ [][NextFaults]_vars

\* ================================================================= claims
StudentsOf(records) == {d.studentId : d \in records}

\* Every mark in m carries a status of the AttendanceStatus enum.
ValidMarks(m) == \A s \in DOMAIN m : m[s] \in AttendanceStatus

\* C1 (as claimed): after any sequence of accepted marks in a session, a
\* TODAY_SUMMARY broadcast carries total = the number of distinct students
\* marked so far, and present + absent = total.
C1_SummaryCountsMarked ==
    \A i \in DOMAIN sent :
        sent[i].msg.event = "TODAY_SUMMARY" =>
            /\ sent[i].msg.total = Cardinality(DOMAIN marked)
            /\ sent[i].msg.present + sent[i].msg.absent = sent[i].msg.total

\* C2 (as claimed): when a DONE invocation completes, every student of the
\* roster it looked up has a status in the resulting map, the one the student
\* was marked with in the session, else "absent", and no session is active.
\* Stated for sessions whose marks all carry a status of the enum.
C2_FinalizeDefaultsRoster ==
    (finished.h # 0 /\ finished.completed /\ ValidMarks(finished.marked)) =>
        /\ activeSession = null
        /\ \A s \in finished.studentIds :
              /\ s \in DOMAIN finished.session.attendance
              /\ finished.session.attendance[s] =
                    IF s \in DOMAIN finished.marked THEN finished.marked[s] ELSE ABSENT

\* C3 (as claimed): the store changes only by the batch write of a DONE
\* invocation, and the batch holds exactly one record per student enrolled in
\* the class it looked up and none for anyone else.
C3_OnlyEnrolledRecorded ==
    [][attendances' # attendances =>
         \E h \in Handlers :
            /\ done[h].pc = "insertMany"
            /\ attendances' = Append(attendances, done[h].records)
            /\ StudentsOf(done[h].records) = done[h].studentIds
            /\ Cardinality(done[h].records) = Cardinality(done[h].studentIds)]_vars

\* C5 (as claimed): a MY_ATTENDANCE answer carries "not yet updated" if no
\* mark for the requester was accepted in the session, else the status of
\* the last accepted mark. Stated for marks that carry a status of the enum.
C5_SelfStatus ==
    \A i \in DOMAIN sent :
        (sent[i].msg.event = "MY_ATTENDANCE" /\ ValidMarks(marked)) =>
            LET userId == wsConn[received.ws].user.userId
            IN  sent[i].msg.status =
                    IF userId \in DOMAIN marked THEN marked[userId]
                    ELSE "not yet updated"

\* The connections the sends of the last step went to, in order.
Recipients(sends) == [i \in DOMAIN sends |-> sends[i].to]

ErrorTo(ws, message) == <<[to |-> ws, msg |-> [event |-> "ERROR", message |-> message]]>>

TeacherEvents == {"ATTENDANCE_MARKED", "TODAY_SUMMARY", "DONE"}
ProtocolEvents == TeacherEvents \cup {"MY_ATTENDANCE"}

RoleOf(ws) == wsConn[ws].user.role

\* The message m came from a connection whose role is not the one its event requires.
RoleMismatch(m) ==
    /\ m.ws # 0
    /\ \/ m.event \in TeacherEvents /\ RoleOf(m.ws) # TEACHER
       \/ m.event = "MY_ATTENDANCE" /\ RoleOf(m.ws) # STUDENT

RoleError(m) ==
    IF m.event = "MY_ATTENDANCE" THEN "Forbidden, student event only"
    ELSE "Forbidden, teacher event only"

\* C4: the answer to a student's MY_ATTENDANCE in an active session is one
\* message, sent to the requester and to nobody else; an accepted mark, a
\* summary and a completed DONE go to every connection of the fan-out list.
C4_UnicastVsBroadcast ==
    /\ (received.event = "MY_ATTENDANCE" /\ RoleOf(received.ws) = STUDENT
            /\ IsActive(activeSession)) =>
          /\ Recipients(sent) = <<received.ws>>
          /\ sent[1].msg.event = "MY_ATTENDANCE"
    /\ (received.event \in {"ATTENDANCE_MARKED", "TODAY_SUMMARY"}
            /\ RoleOf(received.ws) = TEACHER /\ IsActive(activeSession)) =>
          /\ Recipients(sent) = allWs
          /\ \A i \in DOMAIN sent : sent[i].msg.event = received.event
    /\ (finished.h # 0 /\ finished.completed) =>
          /\ Recipients(sent) = allWs
          /\ \A i \in DOMAIN sent : sent[i].msg.event = "DONE"

\* C4 witness: a student got the answer to MY_ATTENDANCE while another
\* connection was registered.
C4_Witness ==
    /\ received.event = "MY_ATTENDANCE"
    /\ Len(sent) = 1 /\ sent[1].msg.event = "MY_ATTENDANCE"
    /\ Len(allWs) = 2

\* C6: an event whose sender has the wrong role is answered by one
\* role-violation ERROR to the sender; session, store, fan-out list and the
\* DONE invocations in flight are unchanged and nobody else is sent anything.
C6_RoleViolation ==
    [][RoleMismatch(received') =>
          /\ sent' = ErrorTo(received'.ws, RoleError(received'))
          /\ UNCHANGED <<activeSession, attendances, allWs, wsConn, done, clock,
                         marks, marked>>]_vars

\* C6 witness: a student's teacher-only event was refused during an active
\* session while another connection was registered.
C6_Witness ==
    /\ RoleMismatch(received)
    /\ received.event \in TeacherEvents
    /\ sent = ErrorTo(received.ws, "Forbidden, teacher event only")
    /\ IsActive(activeSession)
    /\ Len(allWs) = 2

\* C7 (as claimed): any of the four events received while no session is
\* active, whatever the sender's role, is answered by the "no active session"
\* ERROR and has no side effect.
C7_SessionCheckedFirst ==
    [][(received'.event \in ProtocolEvents /\ ~IsActive(activeSession)) =>
          /\ sent' = ErrorTo(received'.ws, "No active attendance session")
          /\ UNCHANGED <<activeSession, attendances, allWs, wsConn, done, clock,
                         marks, marked>>]_vars

\* C7 (amended): any of the four events received while no session is active
\* has no side effect and is answered by one ERROR to the sender: the
\* role-violation error when the sender's role is not the one the event
\* requires (the role is checked first), else "no active session".
C7_RoleThenSession ==
    [][(received'.event \in ProtocolEvents /\ ~IsActive(activeSession)) =>
          /\ sent' = ErrorTo(received'.ws,
                             IF RoleMismatch(received') THEN RoleError(received')
                             ELSE "No active attendance session")
          /\ UNCHANGED <<activeSession, attendances, allWs, wsConn, done, clock,
                         marks, marked>>]_vars

\* C7 witness: a student's MY_ATTENDANCE was refused for want of a session.
C7_Witness ==
    /\ received.event = "MY_ATTENDANCE"
    /\ RoleOf(received.ws) = STUDENT
    /\ ~IsActive(activeSession)
    /\ sent = ErrorTo(received.ws, "No active attendance session")

\* C8: a teacher's DONE received while no session is active is answered by
\* the "no active session" ERROR to the sender alone; nothing is written to
\* the store and no DONE invocation is started.
C8_DoneWithoutSession ==
    [][(received'.event = "DONE" /\ RoleOf(received'.ws) = TEACHER
            /\ ~IsActive(activeSession)) =>
          /\ sent' = ErrorTo(received'.ws, "No active attendance session")
          /\ UNCHANGED <<activeSession, attendances, done>>]_vars

\* C8 witness: a teacher's DONE was refused after an earlier DONE had
\* written its batch and cleared the session, with another connection registered.
C8_Witness ==
    /\ received.event = "DONE"
    /\ RoleOf(received.ws) = TEACHER
    /\ ~IsActive(activeSession)
    /\ sent = ErrorTo(received.ws, "No active attendance session")
    /\ Len(attendances) > 0
    /\ Len(allWs) = 2

\* C9 (as claimed): while a DONE invocation is between its session check and
\* its clear, no mark and no other DONE invocation changes the session.
C9_MutualExclusion ==
    [][\A h \in Handlers :
          (done[h].pc # "idle" /\ done'[h] = done[h] /\ clock' = clock) =>
             activeSession' = activeSession]_vars

\* C10: a DONE broadcast is sent only by a DONE invocation that ran to its
\* end: the roster it looked up is in its batch, the batch (if there is
\* anything to write) is the last one in the store, and no session is active.
C10_DoneAfterWrite ==
    \A i \in DOMAIN sent :
        sent[i].msg.event = "DONE" =>
            /\ finished.h # 0 /\ finished.completed
            /\ activeSession = null
            /\ finished.studentIds \subseteq StudentsOf(finished.records)
            /\ \/ finished.records = {}
               \/ /\ Len(attendances) > 0
                  /\ attendances[Len(attendances)] = finished.records

\* C10 witness: a DONE broadcast went out for a batch that had to be written.
C10_Witness ==
    /\ \E i \in DOMAIN sent : sent[i].msg.event = "DONE"
    /\ finished.h # 0 /\ finished.completed
    /\ finished.records # {}

\* The last step was a broadcast of `event`: an accepted mark or summary, or
\* the end of a DONE invocation.
Broadcasting(event) ==
    IF event = "DONE" THEN finished.h # 0 /\ finished.completed
    ELSE /\ received.event = event
         /\ RoleOf(received.ws) = TEACHER
         /\ IsActive(activeSession)

\* C11 (as claimed): a broadcast reaches every registered connection whose
\* socket is open, whatever happens to the send on another connection.
C11_BroadcastIsolatesFailure ==
    \A event \in {"ATTENDANCE_MARKED", "TODAY_SUMMARY", "DONE"} :
        Broadcasting(event) =>
            \A c \in Range(allWs) :
                Open(c) => \E i \in DOMAIN sent :
                              sent[i].to = c /\ sent[i].msg.event = event

\* C12 (as claimed): a roster lookup that ends while the session is active,
\* failed or not, never ends the DONE invocation: it goes on to write a
\* batch that holds every marked student, or (nothing to write) it clears
\* the session and broadcasts the final summary.
C12_LookupFailureIsSoft ==
    [][\A h \in Handlers :
          (done[h].pc = "findById" /\ done'[h].pc # "findById"
                /\ IsActive(activeSession)) =>
             \/ /\ done'[h].pc = "insertMany"
                /\ DOMAIN marked \subseteq StudentsOf(done'[h].records)
             \/ /\ finished'.h = h /\ finished'.completed
                /\ activeSession' = null]_vars

\* The step is a DONE invocation whose insertMany rejected: it was suspended
\* at the write, it ended without completing, and the store is as it was
\* (an invocation that ends there after a write that succeeded found the
\* session cleared).
WriteFailed(h) ==
    /\ done[h].pc = "insertMany"
    /\ finished'.h = h /\ ~finished'.completed
    /\ attendances' = attendances
    /\ IsActive(activeSession)

\* C13 (as claimed): when the batch write of a DONE invocation fails, the
\* session is cleared and the DONE confirmation is broadcast as on success.
C13_WriteFailureLooksLikeSuccess ==
    [][\A h \in Handlers :
          (done[h].pc = "insertMany" /\ done'[h].pc = "idle"
                /\ attendances' = attendances /\ IsActive(activeSession)) =>
             /\ activeSession' = null
             /\ Len(sent') = Len(allWs)
             /\ \A i \in DOMAIN sent' : sent'[i].msg.event = "DONE"]_vars

\* C13 (amended): when the batch write of a DONE invocation fails, the
\* handler ends at the rejected await: the session stays as it is, with its
\* marks and the absent defaults already applied, nothing is written, and
\* nothing is sent to anyone, neither a DONE nor an ERROR.
C13_WriteFailureKeepsSession ==
    [][\A h \in Handlers :
          (done[h].pc = "insertMany" /\ done'[h].pc = "idle"
                /\ attendances' = attendances /\ IsActive(activeSession)) =>
             /\ WriteFailed(h)
             /\ activeSession' = activeSession
             /\ marked' = marked
             /\ sent' = <<>>]_vars

\* C13 witness: a DONE invocation ended at its write, with a connection
\* registered and the session still holding an accepted mark.
C13_Witness ==
    /\ finished.h # 0 /\ ~finished.completed /\ finished.pc = "insertMany"
    /\ IsActive(activeSession)
    /\ DOMAIN marked # {}
    /\ \A s \in DOMAIN marked : activeSession.attendance[s] = marked[s]
    /\ Len(allWs) > 0
    /\ sent = <<>>

\* C14: a connection whose token fails verification gets exactly one ERROR
\* ("Unauthorized or invalid token") and is closed without being pushed to
\* allWs; from then on it stays out of allWs, nothing is sent to it and no
\* message of it is handled.
C14_RejectedHandshake ==
    [][\A c \in Conns :
          /\ (wsConn[c].state = "new" /\ wsConn'[c].state = "rejected") =>
                /\ sent' = ErrorTo(c, "Unauthorized or invalid token")
                /\ allWs' = allWs
                /\ c \notin Range(allWs')
                /\ UNCHANGED <<activeSession, attendances, done>>
          /\ wsConn[c].state = "rejected" =>
                /\ wsConn'[c].state = "rejected"
                /\ c \notin Range(allWs')
                /\ \A i \in DOMAIN sent' : sent'[i].to # c
                /\ received'.ws # c]_vars

\* C14 witness: an accepted mark was broadcast to the registered connection
\* while the other connection had been rejected at its handshake.
C14_Witness ==
    /\ \E c \in Conns : wsConn[c].state = "rejected"
    /\ received.event = "ATTENDANCE_MARKED"
    /\ Len(sent) = 1 /\ sent[1].msg.event = "ATTENDANCE_MARKED"
    /\ Len(allWs) = 1

\* C15 (as claimed): a start while a session is active replaces it by a new
\* session with an empty attendance map, sends nothing to any connection,
\* writes nothing, and no write that is still to resolve carries a mark of
\* the replaced session.
C15_StartReplacesSession ==
    [][(clock' # clock /\ IsActive(activeSession)) =>
          /\ IsActive(activeSession')
          /\ activeSession'.startedAt = clock'
          /\ activeSession'.attendance = EmptyMap
          /\ sent' = <<>>
          /\ attendances' = attendances
          /\ \A h \in Handlers :
                done'[h].pc = "insertMany" =>
                   \A d \in done'[h].records : d.studentId \notin DOMAIN marked]_vars

\* The inbound messages that are not an envelope {event, data?}: text that
\* is not JSON, a JSON value that is not an object, a mark without data.
Malformed == {"invalid", "ATTENDANCE_MARKED no data"} \cup JsonNonObjects

\* C16 (as claimed): a message that is not parseable as the envelope is
\* answered by the format error ("Invalid message format") to its sender
\* alone, and the session and the store are unchanged.
C16_MalformedGetsFormatError ==
    [][received'.event \in Malformed =>
          /\ sent' = ErrorTo(received'.ws, "Invalid message format")
          /\ UNCHANGED <<activeSession, attendances>>]_vars

ProtocolErrors ==
    {"No active attendance session", "Forbidden, teacher event only",
     "Forbidden, student event only", "Unknown event", "Invalid message format"}

\* C17: a message answered by a protocol error leaves its sender's connection
\* open, registered and with the same identity, so that its later messages
\* are handled as before; an open connection leaves that state only by its
\* socket closing, never in a step of a message handler or of a DONE
\* invocation. The program closes a connection at the handshake only.
C17_ErrorKeepsConnection ==
    [][/\ (received'.ws # 0 /\ \E m \in ProtocolErrors :
                                   sent' = ErrorTo(received'.ws, m)) =>
             /\ wsConn' = wsConn
             /\ allWs' = allWs
             /\ wsConn'[received'.ws].state = "open"
             /\ received'.ws \in Range(allWs')
       /\ \A c \in Conns :
             (wsConn[c].state = "open" /\ wsConn'[c].state # "open") =>
                /\ received' = NoMessage /\ sent' = <<>> /\ finished' = None
                /\ UNCHANGED <<done, activeSession, attendances>>
       /\ \A c \in Conns :
             (wsConn[c].state # "rejected" /\ wsConn'[c].state = "rejected") =>
                wsConn[c].state = "new"]_vars

\* C17 witness: a registered connection got the format error while another
\* connection was registered, and both are still registered and open.
C17_Witness ==
    /\ received.event = "invalid"
    /\ sent = ErrorTo(received.ws, "Invalid message format")
    /\ Len(allWs) = 2
    /\ \A c \in Range(allWs) : Open(c)

\* The step handles a mark that passes both checks.
AcceptedMark ==
    /\ received'.event = "ATTENDANCE_MARKED"
    /\ RoleOf(received'.ws) = TEACHER
    /\ IsActive(activeSession)

\* The step is one of a DONE invocation that passed both checks earlier.
FinalizeStep == \E h \in Handlers : done[h].pc # "idle" /\ done'[h] # done[h]

\* C18: a summary request, a self-status request, an unknown event, a
\* malformed message and every message answered by an ERROR leave the
\* session and the store as they are; the session changes only in a step of
\* an accepted mark, of an accepted DONE or of a start, and the store only
\* in a step of an accepted DONE.
C18_ReadOnlyEvents ==
    [][/\ (received'.ws # 0
            /\ \/ received'.event \in
                     {"TODAY_SUMMARY", "MY_ATTENDANCE", "unknown"} \cup Malformed
               \/ \E i \in DOMAIN sent' : sent'[i].msg.event = "ERROR") =>
             UNCHANGED <<activeSession, attendances>>
       /\ activeSession' # activeSession =>
             AcceptedMark \/ FinalizeStep \/ clock' # clock
       /\ attendances' # attendances => FinalizeStep]_vars

\* C18 witness: a student's self-status request was answered in a session
\* that holds a mark.
C18_Witness ==
    /\ received.event = "MY_ATTENDANCE"
    /\ Len(sent) = 1 /\ sent[1].msg.event = "MY_ATTENDANCE"
    /\ IsActive(activeSession)
    /\ DOMAIN activeSession.attendance # {}

\* C19: allWs holds exactly the connections whose handshake succeeded and
\* whose "close" event has not been handled, each once; nothing is sent to
\* a connection after its "close" event.
C19_FanOutSet ==
    /\ Range(allWs) = {c \in Conns : Registered(c)}
    /\ Cardinality(Range(allWs)) = Len(allWs)
    /\ \A i \in DOMAIN sent : wsConn[sent[i].to].state # "closed"

\* C19 witness: a summary was broadcast to the one connection left after
\* the other had closed.
C19_Witness ==
    /\ \E c \in Conns : wsConn[c].state = "closed"
    /\ received.event = "TODAY_SUMMARY"
    /\ Len(sent) = 1 /\ sent[1].msg.event = "TODAY_SUMMARY"
    /\ allWs = <<sent[1].to>>

\* The records of a batch with the given status.
RecordsWith(records, status) == {d \in records : d.status = status}

\* C20 (as claimed): the present, absent and total counts of a DONE
\* broadcast are the counts of the records the same DONE invocation wrote.
\* Stated for a DONE invocation that ends in the session it was sent in (no
\* start in between), so that only marks interleave with it.
C20_DoneCountsMatchRecords ==
    \A i \in DOMAIN sent :
        (sent[i].msg.event = "DONE" /\ finished.h # 0 /\ finished.completed
              /\ finished.session.startedAt = finished.sess) =>
            /\ sent[i].msg.total = Cardinality(finished.records)
            /\ sent[i].msg.present = Cardinality(RecordsWith(finished.records, PRESENT))
            /\ sent[i].msg.absent = Cardinality(RecordsWith(finished.records, ABSENT))

\* C21 (as claimed): a session is persisted at most once. Stated for the
\* first session, while no other has been started: every batch in the store
\* is then one of that session, and no student has a record in two batches.
C21_PersistedAtMostOnce ==
    clock = 1 =>
        \A j, k \in DOMAIN attendances :
            j # k => StudentsOf(attendances[j]) \cap StudentsOf(attendances[k]) = {}

\* C22 (as claimed): when a DONE invocation completes in the session it was
\* sent in (no start in between), every student with an accepted mark has a
\* record in the batch it wrote, with the status of the student's last
\* accepted mark. Stated for marks that carry a status of the enum.
C22_NoAcceptedMarkLost ==
    (finished.h # 0 /\ finished.completed
          /\ finished.session.startedAt = finished.sess
          /\ ValidMarks(finished.marked)) =>
        \A s \in DOMAIN finished.marked :
            \E d \in finished.records :
                d.studentId = s /\ d.status = finished.marked[s]

\* C23 (as claimed): a DONE invocation works on the session that passed its
\* check, whatever start is handled during its awaits: a step of it changes
\* the session only if that is still the one it was sent in, and the
\* records it builds carry the classId of that session.
C23_FinalizeKeepsItsSession ==
    [][\A h \in Handlers :
          (done[h].pc # "idle" /\ done'[h] # done[h]) =>
             /\ activeSession' # activeSession =>
                   IsActive(activeSession) /\ activeSession.startedAt = done[h].sess
             /\ (done[h].pc = "findById" /\ done'[h].pc = "insertMany") =>
                   \A d \in done'[h].records : d.classId = done[h].classId]_vars

\* C24 (as claimed): whenever a DONE invocation resumes after an await, the
\* session is still active, so that its reads of activeSession.attendance do
\* not throw.
C24_ResumesWithSession ==
    [][\A h \in Handlers :
          (done[h].pc # "idle" /\ done'[h] # done[h]) =>
             IsActive(activeSession)]_vars

\* C25 (as claimed): a DONE that passed both checks leads to the end of its
\* invocation with the session cleared and DONE broadcast, unless one of its
\* awaits was rejected (the invocation then ends with the session still set).
C25_FinalizeCompletes ==
    \A h \in Handlers :
        (done[h].pc = "findById") ~>
            (finished.h = h /\ (finished.completed \/ IsActive(activeSession)))

====
